---- MODULE Spec2Model ----
(***************************************************************************)
(* fuzzyfiler: main() scans a source tree for media files and a target     *)
(* tree for directories, then sort_files() plays each file and prompts      *)
(* the operator (fzf, multi-select) for the directories to copy it to.     *)
(*                                                                         *)
(* A path is a sequence of names; a name is a record [stem, ext] whose     *)
(* literal spelling is stem followed by ext, ext being "" or the part of   *)
(* the spelling from its last dot on.  A filesystem is a function from     *)
(* the paths that exist to their kind, "file" or "dir".                    *)
(***************************************************************************)
EXTENDS Naturals, Integers, Sequences, FiniteSets, Bags, TLC

\* ------------------------------------------------------------------ bounds
MaxFiles == 2
MaxDirs == 2
ScanMaxEntries == 6

\* --------------------------------------------------------------- constants
EXT_WHITELIST == {".bmp", ".gif", ".png", ".jpg", ".jpeg", ".mkv", ".webm", ".mp4"}

QUIT_CHOICE == <<[stem |-> "Quit sorting", ext |-> ""]>>

\* ----------------------------------------------------------------- helpers
Range(s) == {s[i] : i \in 1..Len(s)}

N(stem, ext) == [stem |-> stem, ext |-> ext]

\* str.lower() on the extension spellings that occur in the modelled trees.
Lower(ext) ==
  CASE ext = ".PNG" -> ".png"
    [] ext = ".MP4" -> ".mp4"
    [] ext = ".Mkv" -> ".mkv"
    [] ext = ".TXT" -> ".txt"
    [] OTHER -> ext

\* os.path.splitext: the extension of the last component; a leading dot of
\* the component does not start an extension.
SplitExt(p) ==
  LET n == p[Len(p)]
  IN IF n.stem = "" THEN "" ELSE n.ext

\* os.path.join(current, sub)
Join(current, sub) == Append(current, sub)

isdir(fs, p) == p \in DOMAIN fs /\ fs[p] = "dir"

isfile(fs, p) == p \in DOMAIN fs /\ fs[p] = "file"

\* os.listdir(current): the names of the entries directly under current.
listdir(fs, current) ==
  {p[Len(p)] : p \in {q \in DOMAIN fs : Len(q) = Len(current) + 1
                                        /\ SubSeq(q, 1, Len(current)) = current}}

\* ------------------------------------------------------------- the scanner
\* gather_files with the extension compared as spelled, without lower().
RECURSIVE gather_files_nolower(_, _, _)
gather_files_nolower(fs, current, recursive) ==
  UNION { LET sub == Join(current, name)
          IN (IF recursive /\ isdir(fs, sub)
                THEN gather_files_nolower(fs, sub, recursive) ELSE {})
             \cup
             (IF isfile(fs, sub) /\ SplitExt(sub) \in EXT_WHITELIST
                THEN {sub} ELSE {})
        : name \in listdir(fs, current) }

RECURSIVE gather_files(_, _, _)
gather_files(fs, current, recursive) ==
  UNION { LET sub == Join(current, name)
          IN (IF recursive /\ isdir(fs, sub)
                THEN gather_files(fs, sub, recursive) ELSE {})
             \cup
             (IF isfile(fs, sub) /\ Lower(SplitExt(sub)) \in EXT_WHITELIST
                THEN {sub} ELSE {})
        : name \in listdir(fs, current) }

\* gather_directories without the recursive call.
gather_directories_flat(fs, current) ==
  {sub \in {Join(current, name) : name \in listdir(fs, current)} : isdir(fs, sub)}

RECURSIVE gather_directories(_, _)
gather_directories(fs, current) ==
  UNION { LET sub == Join(current, name)
          IN IF isdir(fs, sub)
               THEN gather_directories(fs, sub) \cup {sub}
               ELSE {}
        : name \in listdir(fs, current) }

\* ------------------------------------------------------- the modelled trees
SrcRoot == <<N("src", "")>>
TgtRoot == <<N("tgt", "")>>

Universe ==
  (SrcRoot :> "dir")
  @@ (Join(SrcRoot, N("a", ".png")) :> "file")
  @@ (Join(SrcRoot, N("b", ".MP4")) :> "file")
  @@ (Join(SrcRoot, N("c", ".txt")) :> "file")
  @@ (Join(SrcRoot, N("sub", "")) :> "dir")
  @@ (Join(Join(SrcRoot, N("sub", "")), N("d", ".mkv")) :> "file")
  @@ (TgtRoot :> "dir")
  @@ (Join(TgtRoot, N("x", "")) :> "dir")
  @@ (Join(Join(TgtRoot, N("x", "")), N("y", "")) :> "dir")
  @@ (Join(TgtRoot, N("z", "")) :> "dir")
  @@ (Join(TgtRoot, N("n", ".png")) :> "file")

ParentClosed(S) ==
  \A p \in S : Len(p) > 1 => SubSeq(p, 1, Len(p) - 1) \in S

\* Entries every modelled tree holds once their root exists: a file that is
\* no media file under the source, a file that is no directory under the target.
Fixed == {Join(SrcRoot, N("c", ".txt")), Join(TgtRoot, N("n", ".png"))}

MediaEntries(f) ==
  {p \in DOMAIN f : f[p] = "file" /\ p[1] = SrcRoot[1]
                    /\ Lower(p[Len(p)].ext) \in EXT_WHITELIST}

DirEntries(f) == {p \in DOMAIN f : f[p] = "dir" /\ p[1] = TgtRoot[1] /\ Len(p) > 1}

Trees ==
  {f \in {[p \in S |-> Universe[p]] : S \in SUBSET DOMAIN Universe} :
     /\ ParentClosed(DOMAIN f)
     /\ \A p \in Fixed : SubSeq(p, 1, Len(p) - 1) \in DOMAIN f => p \in DOMAIN f
     /\ Cardinality(MediaEntries(f)) <= MaxFiles
     /\ Cardinality(DirEntries(f)) <= MaxDirs}

\* ------------------------------------------------------------------- state
VARIABLES
  fs,            \* the filesystem: existing path -> "file" | "dir"
  source,        \* main's argument source
  target,        \* main's argument target
  recursive,     \* option --recursive
  delete,        \* option --delete
  single,        \* option --single
  pc,            \* position of the run
  main_flist,    \* main's flist: the set gather_files returned
  dlist,         \* main's dlist: the set gather_directories returned
  total_count,   \* sort_files: total_count
  flist,         \* sort_files: flist, the list of files still to sort
  player,        \* the mpv player: "none" | "running" | "quit"
  playlist,      \* player.playlist
  playlist_pos,  \* player.playlist_pos (0-based, -1 when there is no entry)
  cur_file,      \* sort_files: cur_file
  cur_dirs,      \* sort_files: cur_dirs, the candidate pool
  choice,        \* sort_files: choice, [kind, sel]
  copies,        \* bag of <<file, directory>>: the shutil.copy calls that succeeded
  log,           \* the messages printed, as a set of [msg, path]
  progress,      \* the 'Progress: remaining/total' lines printed, in order
  invoked,       \* the functions main has called
  played,        \* the files that were read from the player as the current file
  responded,     \* <<file, directory>>: directory was in a response while file was current
  prompted,      \* whether the current file has had a prompt round
  stop,          \* <<>>, or <<[file, sel]>>: the response that held QUIT_CHOICE
  failure        \* "none", or the call that raised: "listdir" | "copy" | "remove"

vars == <<fs, source, target, recursive, delete, single, pc, main_flist, dlist,
          total_count, flist, player, playlist, playlist_pos, cur_file, cur_dirs,
          choice, copies, log, progress, invoked, played, responded, prompted, stop,
          failure>>

NoPath == <<>>

Msg(m, p) == [msg |-> m, path |-> p]

\* All orders in which the elements of S can be enumerated.
Orders(S) ==
  {s \in [1..Cardinality(S) -> S] : \A i, j \in DOMAIN s : s[i] = s[j] => i = j}

\* All sequences of distinct elements of S, the empty one included.
Selections(S) == UNION {Orders(T) : T \in SUBSET S}

\* list(dlist): the set's iteration order, the same at every call of a run.
RECURSIVE ListOf(_)
ListOf(S) ==
  IF S = {} THEN <<>>
  ELSE LET x == CHOOSE y \in S : TRUE IN <<x>> \o ListOf(S \ {x})

\* list.remove(x): drops the first occurrence of x.
RECURSIVE ListRemove(_, _)
ListRemove(s, x) ==
  IF s = <<>> THEN <<>>
  ELSE IF Head(s) = x THEN Tail(s)
  ELSE <<Head(s)>> \o ListRemove(Tail(s), x)

RECURSIVE RemoveEach(_, _)
RemoveEach(s, xs) ==
  IF xs = <<>> THEN s ELSE RemoveEach(ListRemove(s, Head(xs)), Tail(xs))

\* os.remove(path)
os_remove(f, path) == [p \in (DOMAIN f) \ {path} |-> f[p]]

\* What iterfzf(cur_dirs, multi=True) can return: None, or the list of the
\* lines the operator marked (in the order marked; empty when nothing matched).
Cancelled == [kind |-> "none", sel |-> <<>>]

Responses(pool) ==
  {Cancelled} \cup {[kind |-> "list", sel |-> s] : s \in Selections(Range(pool))}

\* `if choice:`
Truthy(c) == c.kind = "true" \/ (c.kind = "list" /\ c.sel /= <<>>)

\* `choice != None`
NotNone(c) == c.kind /= "none"

\* `QUIT_CHOICE in choice`, reached only under `if choice:`
WantsQuit(c) == Truthy(c) /\ QUIT_CHOICE \in Range(c.sel)

\* ToCopy with the quit test made inside the copy loop, label by label.
ToCopy_inorder(c) ==
  IF ~Truthy(c) THEN <<>>
  ELSE IF QUIT_CHOICE \in Range(c.sel)
    THEN SubSeq(c.sel, 1, (CHOOSE i \in 1..Len(c.sel) : c.sel[i] = QUIT_CHOICE) - 1)
    ELSE c.sel

\* ToCopy with only the first selected label copied (multi-select ignored).
ToCopy_first(c) ==
  IF Truthy(c) /\ ~WantsQuit(c) THEN <<Head(c.sel)>> ELSE <<>>

\* The labels the `for cho in choice` loop iterates over: none unless the
\* response is truthy and the quit test before the loop did not return.
ToCopy(c) == IF Truthy(c) /\ ~WantsQuit(c) THEN c.sel ELSE <<>>

\* NewPool with the pool built once and kept from file to file.
NewPool_reuse(d) ==
  IF cur_dirs = <<>> THEN Append(ListOf(d), QUIT_CHOICE) ELSE cur_dirs

\* NewPool with the append of QUIT_CHOICE left out.
NewPool_noquit(d) == ListOf(d)

\* cur_dirs = list(dlist); cur_dirs.append(QUIT_CHOICE)
NewPool(d) == Append(ListOf(d), QUIT_CHOICE)

\* PoolAfter with the cur_dirs.remove(cho) left out.
PoolAfter_keep(pool, copied) == pool

\* cur_dirs after the loop removed each copied label.
PoolAfter(pool, copied) == RemoveEach(pool, copied)

\* InnerCond with the test of choice left out.
InnerCond_nocancel(pool, c) == pool /= <<>>

\* `while cur_dirs and choice != None`
InnerCond(pool, c) == pool /= <<>> /\ NotNone(c)

\* AfterRound with the return after player.quit() left out.
AfterRound_noreturn(c, pool) ==
  IF single THEN "advance"
  ELSE IF InnerCond(pool, c) THEN "prompt"
  ELSE "advance"

\* AfterRound with the quit choice ending the current file only, as a break.
AfterRound_quitbreaks(c, pool) ==
  IF WantsQuit(c) \/ single THEN "advance"
  ELSE IF InnerCond(pool, c) THEN "prompt"
  ELSE "advance"

\* AfterRound with `if single: break` only taken when nothing was selected.
AfterRound_nobreak(c, pool) ==
  IF WantsQuit(c) THEN "quit"
  ELSE IF single /\ ~Truthy(c) THEN "advance"
  ELSE IF InnerCond(pool, c) THEN "prompt"
  ELSE "advance"

\* Where control goes after one prompt round whose copies all succeeded.
AfterRound(c, pool) ==
  IF WantsQuit(c) THEN "quit"
  ELSE IF single THEN "advance"
  ELSE IF InnerCond(pool, c) THEN "prompt"
  ELSE "advance"

\* CopyOutcome with the exception of a failing copy swallowed.
CopyOutcome_masked(n, c, pool) == AfterRound(c, pool)

\* Where control goes after a round in which n copies succeeded: a failing
\* shutil.copy raises out of sort_files and main.
CopyOutcome(n, c, pool) ==
  IF n < Len(ToCopy(c)) THEN "crashed" ELSE AfterRound(c, pool)

\* BothNonEmpty with `or` for `and`.
BothNonEmpty_or(f, d) == f /= {} \/ d /= {}

\* `if flist and dlist:`
BothNonEmpty(f, d) == f /= {} /\ d /= {}

\* ProgressLine with the number of files done for the number remaining.
ProgressLine_done(fl, total) == <<total - Len(fl), total>>

\* 'Progress: {}/{}'.format(len(flist), total_count)
ProgressLine(fl, total) == <<Len(fl), total>>

\* playlist_remove with the call left out.
playlist_remove_none(pl, pos) == pl

\* player.playlist_remove(): drops the entry at the cursor.
playlist_remove(pl, pos) == SubSeq(pl, 1, pos) \o SubSeq(pl, pos + 2, Len(pl))

\* Dequeue with the last element deleted; with nothing deleted.
Dequeue_last(fl) == SubSeq(fl, 1, Len(fl) - 1)

Dequeue_none(fl) == fl

\* del flist[0]
Dequeue(fl) == Tail(fl)

\* DeleteWanted with the flag ignored: never, always.
DeleteWanted_never == FALSE

DeleteWanted_always == TRUE

\* `if delete:`
DeleteWanted == delete

\* -------------------------------------------------------------------- Init
Init ==
  /\ fs \in Trees
  /\ source = SrcRoot
  /\ target = TgtRoot
  /\ recursive \in BOOLEAN
  /\ delete \in BOOLEAN
  /\ single \in BOOLEAN
  /\ pc = "main"
  /\ main_flist = {}
  /\ dlist = {}
  /\ total_count = 0
  /\ flist = <<>>
  /\ player = "none"
  /\ playlist = <<>>
  /\ playlist_pos = -1
  /\ cur_file = NoPath
  /\ cur_dirs = <<>>
  /\ choice = [kind |-> "true", sel |-> <<>>]
  /\ copies = EmptyBag
  /\ log = {}
  /\ progress = <<>>
  /\ invoked = {}
  /\ played = {}
  /\ responded = {}
  /\ prompted = FALSE
  /\ stop = <<>>
  /\ failure = "none"

engineVars == <<total_count, flist, player, playlist, playlist_pos, cur_file,
                cur_dirs, choice, copies, progress, played, responded, prompted, stop>>

options == <<source, target, recursive, delete, single>>

\* ----------------------------------------------------------------- actions
\* main, lines 168-169
CheckSource ==
  /\ pc = "main"
  /\ log' = IF ~isdir(fs, source)
              THEN log \cup {Msg("Source is not a directory, aborting", source)}
              ELSE log
  /\ pc' = "check_target"
  /\ UNCHANGED <<fs, options, main_flist, dlist, invoked, engineVars, failure>>

\* main, lines 170-171
CheckTarget ==
  /\ pc = "check_target"
  /\ log' = IF ~isdir(fs, target)
              THEN log \cup {Msg("Target is not a directory, aborting", target)}
              ELSE log
  /\ pc' = "gather_files"
  /\ UNCHANGED <<fs, options, main_flist, dlist, invoked, engineVars, failure>>

\* main, line 177: os.listdir raises when source is no directory
GatherFiles ==
  /\ pc = "gather_files"
  /\ invoked' = invoked \cup {"gather_files"}
  /\ IF isdir(fs, source)
       THEN /\ main_flist' = gather_files(fs, source, recursive)
            /\ pc' = "gather_directories"
       ELSE /\ main_flist' = main_flist
            /\ pc' = "crashed"
  /\ failure' = IF isdir(fs, source) THEN failure ELSE "listdir"
  /\ UNCHANGED <<fs, options, dlist, log, engineVars>>

\* main, line 178
GatherDirectories ==
  /\ pc = "gather_directories"
  /\ invoked' = invoked \cup {"gather_directories"}
  /\ IF isdir(fs, target)
       THEN /\ dlist' = gather_directories(fs, target)
            /\ pc' = "branch"
       ELSE /\ dlist' = dlist
            /\ pc' = "crashed"
  /\ failure' = IF isdir(fs, target) THEN failure ELSE "listdir"
  /\ UNCHANGED <<fs, options, main_flist, log, engineVars>>

\* main, lines 180-183, and sort_files up to its loop, lines 115-124
Branch ==
  /\ pc = "branch"
  /\ IF BothNonEmpty(main_flist, dlist)
       THEN /\ invoked' = invoked \cup {"sort_files"}
            /\ total_count' = Cardinality(main_flist)
            /\ flist' \in Orders(main_flist)
            /\ player' = "running"
            /\ playlist' = flist'
            /\ playlist_pos' = 0
            /\ pc' = "loop"
            /\ log' = log
       ELSE /\ log' = log \cup {Msg("Source or target directories are empty.", NoPath)}
            /\ pc' = "nothing"
            /\ UNCHANGED <<invoked, total_count, flist, player, playlist, playlist_pos>>
  /\ UNCHANGED <<fs, options, main_flist, dlist, cur_file, cur_dirs, choice, copies,
                 progress, played, responded, prompted, stop, failure>>

\* sort_files, lines 126-132 (a file becomes current) and 158-160 (the end)
LoopHead ==
  /\ pc = "loop"
  /\ IF flist /= <<>>
       THEN IF playlist_pos \in 0..(Len(playlist) - 1)
              THEN /\ cur_file' = playlist[playlist_pos + 1]
                   /\ played' = played \cup {cur_file'}
                   /\ cur_dirs' = NewPool(dlist)
                   /\ progress' = Append(progress, ProgressLine(flist, total_count))
                   /\ choice' = [kind |-> "true", sel |-> <<>>]
                   /\ prompted' = FALSE
                   /\ pc' = IF InnerCond(cur_dirs', choice') THEN "prompt" ELSE "advance"
                   /\ UNCHANGED <<player, log>>
              ELSE /\ pc' = "crashed"
                   /\ UNCHANGED <<cur_file, played, cur_dirs, progress, choice, prompted,
                                  player, log>>
       ELSE /\ player' = "quit"
            /\ log' = log \cup {Msg("Done sorting all files.", NoPath)}
            /\ pc' = "done"
            /\ UNCHANGED <<cur_file, played, cur_dirs, progress, choice, prompted>>
  /\ UNCHANGED <<fs, options, main_flist, dlist, total_count, flist, playlist,
                 playlist_pos, copies, invoked, responded, stop, failure>>

\* sort_files, lines 134-149: one prompt round.  n is the number of
\* shutil.copy calls that succeed; a failing copy raises out of sort_files.
PromptRound ==
  /\ pc = "prompt"
  /\ \E c \in Responses(cur_dirs) :
       /\ choice' = c
       /\ prompted' = TRUE
       /\ responded' = responded \cup
                         {<<cur_file, d>> : d \in Range(c.sel) \ {QUIT_CHOICE}}
       /\ \E n \in 0..Len(ToCopy(c)) :
            LET done == SubSeq(ToCopy(c), 1, n)
            IN /\ copies' = copies (+) SetToBag({<<cur_file, d>> : d \in Range(done)})
               /\ cur_dirs' = PoolAfter(cur_dirs, done)
               /\ pc' = CopyOutcome(n, c, cur_dirs')
               /\ failure' = IF n < Len(ToCopy(c)) THEN "copy" ELSE failure
       /\ IF WantsQuit(c)
            THEN /\ log' = log \cup {Msg("Quitting manually.", NoPath)}
                 /\ player' = "quit"
                 /\ stop' = <<[file |-> cur_file, sel |-> c.sel]>>
            ELSE UNCHANGED <<log, player, stop>>
  /\ UNCHANGED <<fs, options, main_flist, dlist, total_count, flist, playlist,
                 playlist_pos, cur_file, progress, invoked, played>>

\* sort_files, lines 151-152: dequeue the current file from the player and
\* from the list.
Advance ==
  /\ pc = "advance"
  /\ playlist' = playlist_remove(playlist, playlist_pos)
  /\ playlist_pos' = IF playlist_pos < Len(playlist') THEN playlist_pos ELSE -1
  /\ flist' = Dequeue(flist)
  /\ pc' = IF DeleteWanted THEN "delete" ELSE "loop"
  /\ UNCHANGED <<fs, log, options, main_flist, dlist, total_count, player, cur_file,
                 cur_dirs, choice, copies, progress, invoked, played, responded,
                 prompted, stop, failure>>

\* sort_files, lines 154-156: delete the file just dequeued; a failing
\* os.remove raises out of sort_files and main.
Remove ==
  /\ pc = "delete"
  /\ \E ok \in BOOLEAN :
       IF ok
         THEN /\ fs' = os_remove(fs, cur_file)
              /\ log' = log \cup {Msg("Removed", cur_file)}
              /\ pc' = "loop"
              /\ failure' = failure
         ELSE /\ pc' = "crashed"
              /\ failure' = "remove"
              /\ UNCHANGED <<fs, log>>
  /\ UNCHANGED <<options, main_flist, dlist, engineVars, invoked>>

Next ==
  \/ CheckSource
  \/ CheckTarget
  \/ GatherFiles
  \/ GatherDirectories
  \/ Branch
  \/ LoopHead
  \/ PromptRound
  \/ Advance
  \/ Remove

Spec == Init /\ [][Next]_vars

\* ------------------------------------------------------------ properties
CopyCount(f, d) == CopiesIn(<<f, d>>, copies)

CopiedOf(f) == {p \in BagToSet(copies) : p[1] = f}

DoneMsg == Msg("Done sorting all files.", NoPath)

InSort == pc \in {"loop", "prompt", "advance", "done", "quit"}

\* The files sort_files has dequeued.
Dequeued == main_flist \ Range(flist)

\* C1: once a response holding QUIT_CHOICE was received while file A was
\* current, the run has ended in the manual quit with the player stopped: no
\* step follows, every file after A in the list was never the current file,
\* was never copied and is still on disk, and the completion message was
\* not printed.
C1_StopHaltsRun ==
  stop /= <<>> =>
    /\ pc = "quit"
    /\ player = "quit"
    /\ ~ENABLED Next
    /\ flist /= <<>>
    /\ Head(flist) = stop[1].file
    /\ \A i \in 2..Len(flist) :
         /\ flist[i] \notin played
         /\ CopiedOf(flist[i]) = {}
         /\ isfile(fs, flist[i])
    /\ DoneMsg \notin log

C1_Witness ==
  /\ stop /= <<>>
  /\ Len(flist) >= 2
  /\ QUIT_CHOICE \in Range(choice.sel)

\* C2: no (file, directory) pair is copied more than once; every directory
\* the current file was copied to is out of the pool; and a prompt round
\* never adds a label to the pool.
C2_PoolOnlyShrinks ==
  /\ [](/\ \A p \in BagToSet(copies) : CopiesIn(p, copies) = 1
        /\ pc \in {"prompt", "advance"} =>
             \A p \in CopiedOf(cur_file) : p[2] \notin Range(cur_dirs))
  /\ [][pc = "prompt" =>
          /\ Range(cur_dirs') \subseteq Range(cur_dirs)
          /\ Range(cur_dirs') =
               Range(cur_dirs) \ {p[2] : p \in BagToSet(copies') \ BagToSet(copies)}]_vars

C2_Witness ==
  /\ pc = "prompt"
  /\ prompted
  /\ Cardinality(CopiedOf(cur_file)) >= 1
  /\ Len(cur_dirs) >= 2

\* C3 as stated: when QUIT_CHOICE comes with directory labels, the labels
\* before it in the response are copied and those after it are not.
C3_StopCopiesEarlierLabels ==
  stop /= <<>> =>
    LET sel == stop[1].sel
        q == CHOOSE i \in 1..Len(sel) : sel[i] = QUIT_CHOICE
    IN /\ \A i \in 1..(q - 1) : CopyCount(stop[1].file, sel[i]) >= 1
       /\ \A i \in (q + 1)..Len(sel) : CopyCount(stop[1].file, sel[i]) = 0

\* C3 amended: a response holding QUIT_CHOICE ends the run with none of its
\* directory labels copied, wherever QUIT_CHOICE stands in it; what earlier
\* responses copied for the file stays copied.
C3_StopResponseCopiesNothing ==
  stop /= <<>> =>
    /\ pc = "quit"
    /\ \A d \in Range(stop[1].sel) : CopyCount(stop[1].file, d) = 0
    /\ \A d \in dlist \ Range(cur_dirs) : CopyCount(stop[1].file, d) = 1

C3_Witness ==
  /\ stop /= <<>>
  /\ Len(stop[1].sel) >= 2
  /\ stop[1].sel[1] /= QUIT_CHOICE
  /\ CopiedOf(stop[1].file) /= {}

\* C4: with single set, a file that is about to be prompted has had no
\* prompt round yet, and a file about to be dequeued has had one: whatever
\* the one round returned, no second round follows for the same file.
C4_SingleOneRound ==
  single =>
    /\ pc = "prompt" => ~prompted
    /\ pc = "advance" => prompted

C4_Witness ==
  /\ single
  /\ pc = "advance"
  /\ choice.kind = "list"
  /\ Len(choice.sel) = 1
  /\ Len(cur_dirs) >= 2

\* C5: with delete set, every file sort_files has dequeued is gone from the
\* disk and its removal was reported, whenever a next file is current or
\* the run has completed.
C5_DeleteRemovesDequeued ==
  (delete /\ InSort) =>
    \A f \in Dequeued : f \notin DOMAIN fs /\ Msg("Removed", f) \in log

C5_Witness ==
  /\ delete
  /\ pc = "prompt"
  /\ Dequeued /= {}

\* C6: with delete unset no step changes the filesystem's entries.
C6_NoDeleteKeepsFiles == [][~delete => fs' = fs]_vars

C6_Witness ==
  /\ ~delete
  /\ pc = "done"
  /\ copies /= EmptyBag
  /\ \A f \in main_flist : isfile(fs, f)

\* C7: a cancellation copies nothing, leaves the list and the player as
\* they are and goes on to the dequeue of the current file; the dequeue drops
\* exactly the head of the list, the deletion that may follow leaves the
\* list alone; and whenever the list still holds a file, that file becomes
\* current and is prompted for.
C7_CancelIsPerFile ==
  [][/\ (pc = "prompt" /\ choice' = Cancelled) =>
          /\ pc' = "advance"
          /\ copies' = copies
          /\ flist' = flist
          /\ player' = player
     /\ pc = "advance" => (flist' = Tail(flist) /\ pc' \in {"delete", "loop"})
     /\ pc = "delete" => (flist' = flist /\ pc' \in {"loop", "crashed"})
     /\ (pc = "loop" /\ flist /= <<>>) =>
          /\ pc' = "prompt"
          /\ cur_file' = Head(flist)
          /\ player' = "running"]_vars

C7_Witness ==
  /\ ~single
  /\ pc = "prompt"
  /\ choice.kind = "true"
  /\ Dequeued /= {}
  /\ copies = EmptyBag

\* C8: when the run has completed, the pairs copied are exactly the pairs
\* (file, directory) with the directory in a response given while the file
\* was current, the player is stopped and the completion was reported.
C8_CopiesAreResponses ==
  pc = "done" =>
    /\ BagToSet(copies) = responded
    /\ stop = <<>>
    /\ player = "quit"
    /\ DoneMsg \in log

C8_Witness ==
  /\ pc = "done"
  /\ Cardinality({p[1] : p \in responded}) >= 2
  /\ Cardinality({p[2] : p \in responded}) >= 2

\* C9: at the first prompt of every file the pool holds exactly the target
\* directories and QUIT_CHOICE, each once, and the directory set is the one
\* the scan returned.
C9_FreshPoolPerFile ==
  /\ (pc = "prompt" /\ ~prompted) =>
        /\ Range(cur_dirs) = dlist \cup {QUIT_CHOICE}
        /\ Len(cur_dirs) = Cardinality(dlist) + 1
  /\ InSort => dlist = gather_directories(fs, target)

C9_Witness ==
  /\ pc = "prompt"
  /\ ~prompted
  /\ Dequeued /= {}
  /\ copies /= EmptyBag

\* C10: when source or target is no directory, main calls neither scan nor
\* sort_files.
C10_NotADirectoryAborts ==
  (~isdir(fs, source) \/ ~isdir(fs, target)) => invoked = {}

EmptyMsg == Msg("Source or target directories are empty.", NoPath)

\* C11: once both scans have returned, an empty file set or an empty
\* directory set ends the run with the report that source or target are
\* empty: sort_files is not called, no player exists, nothing was prompted
\* for, copied or deleted; and sort_files is only ever called with both
\* sets non-empty.
C11_EmptySetsSkipSort ==
  /\ (pc \notin {"main", "check_target", "gather_files", "gather_directories",
                 "branch", "crashed"}
      /\ (main_flist = {} \/ dlist = {})) =>
        /\ pc = "nothing"
        /\ EmptyMsg \in log
        /\ "sort_files" \notin invoked
        /\ player = "none"
        /\ played = {} /\ progress = <<>> /\ ~prompted
        /\ copies = EmptyBag
        /\ \A m \in log : m.msg /= "Removed"
        /\ ~ENABLED Next
  /\ "sort_files" \in invoked =>
        (main_flist /= {} /\ dlist /= {} /\ EmptyMsg \notin log)

C11_Witness ==
  /\ pc = "nothing"
  /\ main_flist /= {}
  /\ dlist = {}

\* The files behind the head of the list were never current, never copied
\* and are on disk.
LaterFilesUntouched ==
  \A i \in 2..Len(flist) :
    /\ flist[i] \notin played
    /\ CopiedOf(flist[i]) = {}
    /\ isfile(fs, flist[i])

\* C12: after a failing copy the run has ended without a further step: the
\* labels of the response before the failing one are copied once and out of
\* the pool, the failing one and those after it are not copied, the current
\* file is still at the head of the list and at the player's cursor, is on
\* disk and was not reported removed, and no later file was touched.  After
\* a failing delete the run has ended as well, with the file on disk and no
\* file of the list touched.  Neither run reports completion.
C12_FailFast ==
  /\ failure = "copy" =>
       /\ pc = "crashed"
       /\ ~ENABLED Next
       /\ \E n \in 0..(Len(choice.sel) - 1) :
            /\ \A i \in 1..n :
                 /\ CopyCount(cur_file, choice.sel[i]) = 1
                 /\ choice.sel[i] \notin Range(cur_dirs)
            /\ \A i \in (n + 1)..Len(choice.sel) :
                 /\ CopyCount(cur_file, choice.sel[i]) = 0
                 /\ choice.sel[i] \in Range(cur_dirs)
       /\ flist /= <<>> /\ Head(flist) = cur_file
       /\ playlist = flist /\ playlist_pos = 0
       /\ isfile(fs, cur_file)
       /\ Msg("Removed", cur_file) \notin log
       /\ LaterFilesUntouched
       /\ DoneMsg \notin log
  /\ failure = "remove" =>
       /\ pc = "crashed"
       /\ ~ENABLED Next
       /\ isfile(fs, cur_file)
       /\ Msg("Removed", cur_file) \notin log
       /\ \A f \in Range(flist) : f \notin played /\ CopiedOf(f) = {} /\ isfile(fs, f)
       /\ DoneMsg \notin log

C12_Witness ==
  /\ failure = "copy"
  /\ delete
  /\ Len(flist) >= 2
  /\ Len(choice.sel) >= 2
  /\ CopyCount(cur_file, choice.sel[1]) = 1

\* C13: at the top of every outer iteration the player's playlist and the
\* list hold the same files in the same order; while the list is not empty
\* the cursor is on an entry, the entry is the head of the list and it is
\* not the file just dequeued; with the list empty the playlist is empty.
\* While a file is being decided, the file read from the player is the
\* head of the list and the entry at the cursor.
C13_QueueMatchesList ==
  /\ pc = "loop" =>
       /\ playlist = flist
       /\ flist /= <<>> =>
            /\ playlist_pos \in 0..(Len(playlist) - 1)
            /\ playlist[playlist_pos + 1] = Head(flist)
            /\ cur_file /= Head(flist)
       /\ flist = <<>> => (playlist = <<>> /\ playlist_pos = -1)
       /\ cur_file \notin Range(playlist)
  /\ pc \in {"prompt", "advance"} =>
       /\ playlist = flist
       /\ cur_file = Head(flist)
       /\ cur_file = playlist[playlist_pos + 1]

C13_Witness ==
  /\ pc = "loop"
  /\ flist /= <<>>
  /\ Dequeued /= {}

\* C14: the progress lines are total/total, total-1/total, ...: total is the
\* size of the scanned file set, one line is printed for each file that
\* became current, and the remaining count of the last line is the length
\* of the list while that file is being decided.
C14_ProgressCountsDown ==
  "sort_files" \in invoked =>
    /\ total_count = Cardinality(main_flist)
    /\ \A i \in 1..Len(progress) : progress[i] = <<total_count - i + 1, total_count>>
    /\ Len(progress) = Cardinality(played)
    /\ pc \in {"prompt", "advance"} => progress[Len(progress)][1] = Len(flist)
    /\ pc = "loop" => Len(progress) = total_count - Len(flist)
    /\ pc = "done" => Len(progress) = total_count

C14_Witness ==
  /\ pc = "prompt"
  /\ Len(progress) >= 2

\* ------------------------------------------------- the scans on their own
\* The trees the two scans are applied to: below the root, media files
\* spelled in lower and upper case, a file named ".png" (no extension), a
\* file that is no media file, a directory named like a media file, and
\* directories two levels deep.
ScanRoot == <<N("root", "")>>

ScanSub == Join(ScanRoot, N("sub", ""))

ScanUniverse ==
  (ScanRoot :> "dir")
  @@ (Join(ScanRoot, N("a", ".png")) :> "file")
  @@ (Join(ScanRoot, N("B", ".PNG")) :> "file")
  @@ (Join(ScanRoot, N("", ".png")) :> "file")
  @@ (Join(ScanRoot, N("c", ".txt")) :> "file")
  @@ (Join(ScanRoot, N("e", ".gif")) :> "dir")
  @@ (Join(Join(ScanRoot, N("e", ".gif")), N("f", ".jpg")) :> "file")
  @@ (ScanSub :> "dir")
  @@ (Join(ScanSub, N("d", ".Mkv")) :> "file")
  @@ (Join(ScanSub, N("deep", "")) :> "dir")
  @@ (Join(Join(ScanSub, N("deep", "")), N("g", ".webm")) :> "file")

ScanTrees ==
  {f \in {[p \in S |-> ScanUniverse[p]] : S \in SUBSET DOMAIN ScanUniverse} :
     /\ ScanRoot \in DOMAIN f
     /\ ParentClosed(DOMAIN f)
     /\ Cardinality(DOMAIN f) <= ScanMaxEntries + 1}

ScanInit ==
  /\ fs \in ScanTrees
  /\ source \in {p \in DOMAIN fs : fs[p] = "dir"}
  /\ target = source
  /\ recursive \in BOOLEAN
  /\ delete = FALSE
  /\ single = FALSE
  /\ pc = "scan_files"
  /\ main_flist = {}
  /\ dlist = {}
  /\ total_count = 0
  /\ flist = <<>>
  /\ player = "none"
  /\ playlist = <<>>
  /\ playlist_pos = -1
  /\ cur_file = NoPath
  /\ cur_dirs = <<>>
  /\ choice = [kind |-> "true", sel |-> <<>>]
  /\ copies = EmptyBag
  /\ log = {}
  /\ progress = <<>>
  /\ invoked = {}
  /\ played = {}
  /\ responded = {}
  /\ prompted = FALSE
  /\ stop = <<>>
  /\ failure = "none"

\* gather_files(source, recursive=recursive)
ScanFiles ==
  /\ pc = "scan_files"
  /\ main_flist' = gather_files(fs, source, recursive)
  /\ invoked' = invoked \cup {"gather_files"}
  /\ pc' = "scan_directories"
  /\ UNCHANGED <<fs, options, dlist, log, engineVars, failure>>

\* gather_directories(target)
ScanDirectories ==
  /\ pc = "scan_directories"
  /\ dlist' = gather_directories(fs, target)
  /\ invoked' = invoked \cup {"gather_directories"}
  /\ pc' = "scanned"
  /\ UNCHANGED <<fs, options, main_flist, log, engineVars, failure>>

ScanNext ==
  \/ ScanFiles
  \/ ScanDirectories

SpecScan == ScanInit /\ [][ScanNext]_vars

\* The entries below dir at any depth, and those directly in it.
Below(f, dir) ==
  {p \in DOMAIN f : Len(p) > Len(dir) /\ SubSeq(p, 1, Len(dir)) = dir}

DirectlyIn(f, dir) == {p \in Below(f, dir) : Len(p) = Len(dir) + 1}

\* A name with an extension that is on the whitelist in some spelling of case.
MediaName(n) == n.stem /= "" /\ \E w \in EXT_WHITELIST : Lower(n.ext) = w

DirectMedia(f, dir) ==
  {p \in DirectlyIn(f, dir) : f[p] = "file" /\ MediaName(p[Len(p)])}

\* C15: the scan without recursion returns exactly the files directly under
\* the root whose extension is on the whitelist, whatever its case; the
\* scan with recursion returns exactly the union of the scans without
\* recursion of the root and of every directory below it.
C15_GatherFilesExact ==
  pc \in {"scan_directories", "scanned"} =>
    /\ gather_files(fs, source, FALSE) = DirectMedia(fs, source)
    /\ ~recursive => main_flist = DirectMedia(fs, source)
    /\ recursive =>
         main_flist = UNION {gather_files(fs, d, FALSE) :
                               d \in {source} \cup {p \in Below(fs, source) : fs[p] = "dir"}}

C15_Witness ==
  /\ pc = "scanned"
  /\ recursive
  /\ source = ScanRoot
  /\ Cardinality(main_flist) >= 3
  /\ Cardinality(DirectMedia(fs, source)) = 1
  /\ Join(ScanRoot, N("e", ".gif")) \in DOMAIN fs

\* C16: the directory scan returns exactly the directories below the root,
\* at every depth and whatever the recursive option: not the root, and no
\* entry that is a file.
C16_GatherDirectoriesExact ==
  pc = "scanned" =>
    /\ dlist = {p \in Below(fs, target) : fs[p] = "dir"}
    /\ target \notin dlist
    /\ \A p \in dlist : isdir(fs, p) /\ ~isfile(fs, p)

C16_Witness ==
  /\ pc = "scanned"
  /\ ~recursive
  /\ target = ScanRoot
  /\ Join(ScanSub, N("deep", "")) \in dlist
  /\ Cardinality(dlist) >= 3

\* --------------------------------------------- properties of the run, cont.
\* C17: when the run was ended by QUIT_CHOICE, the file current at that
\* moment and every file still in the list are on disk and were not
\* reported removed, also with delete set; the only files gone from the
\* disk are files dequeued before.
C17_StopDeletesNothing ==
  stop /= <<>> =>
    /\ flist /= <<>>
    /\ Head(flist) = stop[1].file
    /\ \A f \in Range(flist) : isfile(fs, f) /\ Msg("Removed", f) \notin log
    /\ \A f \in main_flist : ~isfile(fs, f) => f \in Dequeued
    /\ delete => \A f \in Dequeued : ~isfile(fs, f)

C17_Witness ==
  /\ stop /= <<>>
  /\ delete
  /\ Dequeued /= {}
  /\ \A f \in Dequeued : ~isfile(fs, f)

\* C18: QUIT_CHOICE is in the pool at every prompt and stays in it, so the
\* pool is never empty; a file leaves its decision loop without the quit
\* only by a cancellation or by single; and without single, a file copied
\* into every target directory is prompted for again with the pool holding
\* QUIT_CHOICE alone.
C18_QuitAlwaysOffered ==
  /\ pc \in {"prompt", "advance"} =>
       /\ QUIT_CHOICE \in Range(cur_dirs)
       /\ cur_dirs /= <<>>
  /\ pc = "advance" => (choice = Cancelled \/ single)
  /\ (~single /\ pc \in {"prompt", "advance"} /\ choice /= Cancelled
      /\ \A d \in dlist : CopyCount(cur_file, d) = 1) =>
       /\ pc = "prompt"
       /\ cur_dirs = <<QUIT_CHOICE>>

C18_Witness ==
  /\ ~single
  /\ pc = "prompt"
  /\ cur_dirs = <<QUIT_CHOICE>>
  /\ Cardinality(dlist) >= 2

\* The run is over: sorted, quit, nothing to sort, or an exception.
Terminal == pc \in {"done", "quit", "nothing", "crashed"}

InLoop == pc \in {"loop", "prompt", "advance", "delete"}

\* A measure of the work sort_files has left: the files of the list, each
\* worth more than the steps of one decision loop, and within a decision
\* loop the labels still in the pool.
Rank ==
  LET W == Cardinality(dlist) + 5
  IN CASE pc = "loop" -> Len(flist) * W + 1
       [] pc = "delete" -> Len(flist) * W + 2
       [] pc = "advance" -> (Len(flist) - 1) * W + 3
       [] pc = "prompt" -> (Len(flist) - 1) * W + 3 + Len(cur_dirs)
       [] OTHER -> 0

\* The prompt returned the empty list.
EmptyResponse == pc = "prompt" /\ choice' = [kind |-> "list", sel |-> <<>>]

\* C19: inside sort_files a step is always possible until the run is over,
\* and every step other than a prompt that returns the empty list lowers
\* the measure Rank, a natural number: a selection round removes a label
\* from the pool, which holds the target directories and QUIT_CHOICE at
\* first and never less than QUIT_CHOICE, and a completed decision loop
\* takes one file off the list.
C19_SortTerminates ==
  /\ [](InLoop => (ENABLED Next /\ Rank > 0 /\ Len(cur_dirs) <= Cardinality(dlist) + 1))
  /\ [][InLoop => (EmptyResponse \/ Rank' < Rank)]_vars

C19_Witness ==
  /\ pc = "done"
  /\ ~single
  /\ total_count >= 2
  /\ Cardinality(dlist) >= 2
  /\ \A f \in main_flist : \A d \in dlist : CopyCount(f, d) = 1

\* C20: a file read from the player as the current file was never current
\* before and is on disk; a copy is made only of the current file, while it
\* heads the list and is on disk; the only entry a step takes off the disk
\* is the current file, after the step that took it off the playlist and
\* off the list; and no file of the list or the playlist is gone from disk.
C20_PerFileOrder ==
  /\ [](\A f \in Range(flist) \cup Range(playlist) : isfile(fs, f))
  /\ [][/\ (pc = "loop" /\ flist /= <<>>) =>
             /\ cur_file' \notin played
             /\ isfile(fs, cur_file')
             /\ played' = played \cup {cur_file'}
        /\ pc /= "loop" => (cur_file' = cur_file /\ played' = played)
        /\ copies' /= copies =>
             /\ pc = "prompt"
             /\ cur_file = Head(flist)
             /\ isfile(fs, cur_file)
             /\ \A p \in BagToSet(copies') :
                  CopiesIn(p, copies') > CopiesIn(p, copies) => p[1] = cur_file
        /\ fs' /= fs =>
             /\ pc = "delete"
             /\ (DOMAIN fs) \ (DOMAIN fs') = {cur_file}
             /\ cur_file \notin Range(flist)
             /\ cur_file \notin Range(playlist)]_vars

C20_Witness ==
  /\ delete
  /\ pc = "done"
  /\ total_count >= 2
  /\ \A f \in main_flist : ~isfile(fs, f) /\ CopiedOf(f) /= {}

====
